---- MODULE Spec2Model ----
(***************************************************************************)
(* Model of movieAnalysis.py: the four dataframe transforms behind the     *)
(* Movie Lens dashboard (genre counts, five-star genre counts, mean rating *)
(* by release year, top movies) and main, which runs them on one loaded    *)
(* table.                                                                  *)
(*                                                                         *)
(* A table is a sequence of rows [title, genres, rating, year].  A field   *)
(* the CSV leaves empty is read as a missing value: NoText for a text      *)
(* column, NaN for a numeric one.  A mean is kept as an exact fraction     *)
(* [num, den] in lowest terms (den = 0 is the NaN mean of no values); for  *)
(* the small integers of the model the order and equality of fractions     *)
(* are those of the float64 quotients pandas computes.                     *)
(***************************************************************************)
EXTENDS Integers, Sequences, FiniteSets, TLC

\* ------------------------------------------------------------------ bounds
MaxRows == 4
MaxMinRatings == 2
MaxTopN == 2

\* ------------------------------------------------------- values of a table
NoText == ""
NaN == -1
FiveStars == 5
Min50 == 50
Min150 == 150
Top5 == 5

Titles == {"Heat", "Toy Story", "Up"}
Genres == {"Action", "Animation"}
Ratings == {4, 5}
Years == {1995, 1996}

\* Python's order on the title strings of the model (code-point order).
TitleRank == [t \in Titles \cup {NoText} |->
                CASE t = NoText -> 0
                  [] t = "Heat" -> 1
                  [] t = "Toy Story" -> 2
                  [] t = "Up" -> 3]

Row(t, g, r, y) == [title |-> t, genres |-> g, rating |-> r, year |-> y]

\* Rows in which only the columns one transform reads vary.
GenreRows == {Row("Heat", g, r, 1995) : g \in Genres \cup {NoText}, r \in Ratings \cup {NaN}}
YearRows == {Row("Heat", "Action", r, y) : r \in Ratings \cup {NaN}, y \in Years \cup {NaN}}
TitleRows == {Row(t, "Action", r, 1995) : t \in Titles, r \in Ratings}
               \cup {Row("Heat", "Action", NaN, 1995), Row(NoText, "Action", 5, 1995)}
\* The rows of the worked example, and a row of gaps.
MainRows == {Row("Toy Story", "Animation", 5, 1995), Row("Toy Story", "Animation", 4, 1995),
             Row("Heat", "Action", 3, 1995), Row("Up", NoText, NaN, NaN)}

TablesOver(rows) == UNION {[1..k -> rows] : k \in 0..MaxRows}

\* ---------------------------------------------------------------- helpers
RECURSIVE Gcd(_, _)
Gcd(a, b) == IF b = 0 THEN a ELSE Gcd(b, a % b)

RECURSIVE SumSeq(_)
SumSeq(s) == IF s = <<>> THEN 0 ELSE Head(s) + SumSeq(Tail(s))

NotNaN(v) == v # NaN

\* A count that takes the missing values along, as Series.size does.
size(s) == Len(s)

\* Series.count(): the number of non-missing values.
count(s) == Len(SelectSeq(s, NotNaN))

\* A mean that divides by the number of rows, missing ratings included.
meanOverRows(s) ==
  LET t == SumSeq(SelectSeq(s, NotNaN))
      g == Gcd(t, Len(s))
  IN IF Len(s) = 0 THEN [num |-> 0, den |-> 0] ELSE [num |-> t \div g, den |-> Len(s) \div g]

\* Series.mean(): missing values are skipped; NaN (den = 0) when none is left.
mean(s) ==
  LET vals == SelectSeq(s, NotNaN)
      n == Len(vals)
      t == SumSeq(vals)
      g == Gcd(t, n)
  IN IF n = 0 THEN [num |-> 0, den |-> 0] ELSE [num |-> t \div g, den |-> n \div g]

IsNaNMean(m) == m.den = 0
MeanLess(a, b) == a.num * b.den < b.num * a.den

\* ------------------------------------------------- dataframe primitives
\* df[name]: one column of the table, in row order.
Column(d, name) == [i \in DOMAIN d |-> d[i][name]]

Range(s) == {s[i] : i \in DOMAIN s}

\* sort_values on a short column: numpy's quicksort is an insertion sort
\* there, so rows with equal keys keep their order.  before[a, b] is the
\* strict order "a sorts ahead of b"; row i lands behind the rows that sort
\* ahead of it and the earlier rows that tie with it.
StableSort(s, before) ==
  LET Ahead(i) == {j \in DOMAIN s : \/ before[s[j], s[i]]
                                    \/ ~before[s[i], s[j]] /\ j < i}
  IN [p \in DOMAIN s |-> s[CHOOSE i \in DOMAIN s : Cardinality(Ahead(i)) = p - 1]]

\* The distinct values of a column in order of first appearance.
RECURSIVE unique(_)
unique(s) ==
  IF s = <<>> THEN <<>>
  ELSE LET init == unique(SubSeq(s, 1, Len(s) - 1))
           x == s[Len(s)]
       IN IF \E i \in DOMAIN init : init[i] = x THEN init ELSE Append(init, x)

Occurrences(s, v) == Cardinality({i \in DOMAIN s : s[i] = v})

\* DataFrame.head(n) for n >= 0.
head(s, n) == SubSeq(s, 1, IF n < Len(s) THEN n ELSE Len(s))

\* Series.value_counts().reset_index(): missing values dropped, one row per
\* value, most frequent first.
MostFrequentFirst(s) == [a \in Range(s), b \in Range(s) |-> a.count > b.count]
IsText(v) == v # NoText
\* value_counts(dropna=False).
keepna(s) == s

dropna(s) == SelectSeq(s, IsText)
value_counts(s) ==
  LET present == dropna(s)
      vals == unique(present)
      rows == [i \in DOMAIN vals |-> [genres |-> vals[i], count |-> Occurrences(present, vals[i])]]
  IN StableSort(rows, MostFrequentFirst(rows))

\* ------------------------------------------------------------- transforms
\* plot_genre_counts, lines 24-25.
GenreCounts(d) == value_counts(Column(d, "genres"))

\* plot_5star_treemap, lines 56-60.
\* A filter that lets four stars through as well.
IsFourStarsOrMore(r) == r.rating >= FiveStars - 1

IsFiveStar(r) == r.rating = FiveStars
TopRatings(d) == SelectSeq(d, IsFiveStar)
FiveStarCounts(d) == value_counts(Column(TopRatings(d), "genres"))

\* groupby(key): the distinct non-missing keys, ascending.
Ascending(s) == [a \in Range(s), b \in Range(s) |-> a < b]
HasYear(y) == y # NaN
YearValues(d) == unique(SelectSeq(Column(d, "year"), HasYear))

\* groupby(sort=False): the keys in order of first appearance.
YearKeysUnsorted(d) == YearValues(d)

YearKeys(d) == LET ks == YearValues(d) IN StableSort(ks, Ascending(ks))
AscendingTitles(s) == [a \in Range(s), b \in Range(s) |-> TitleRank[a] < TitleRank[b]]
TitleKeys(d) == LET ks == unique(SelectSeq(Column(d, "title"), IsText)) IN StableSort(ks, AscendingTitles(ks))

\* plot_mean_rating_by_year, line 81.
RatingsOfYear(d, y) == LET InYear(r) == r.year = y IN Column(SelectSeq(d, InYear), "rating")
\* A grouping that yields a row for every year of the catalogue, as a
\* categorical key does.
MeanRatingsAllYears(d) ==
  LET ks == <<1995, 1996>>
  IN [i \in DOMAIN ks |-> [year |-> ks[i], rating |-> mean(RatingsOfYear(d, ks[i]))]]

MeanRatings(d) ==
  LET ks == YearKeys(d)
  IN [i \in DOMAIN ks |-> [year |-> ks[i], rating |-> mean(RatingsOfYear(d, ks[i]))]]

\* top_movies_table, lines 99-103.
RatingsOfTitle(d, t) == LET OfTitle(r) == r.title = t IN Column(SelectSeq(d, OfTitle), "rating")
MovieStats(d) ==
  LET ks == TitleKeys(d)
  IN [i \in DOMAIN ks |-> [title |-> ks[i],
                           avg_rating |-> mean(RatingsOfTitle(d, ks[i])),
                           rating_count |-> count(RatingsOfTitle(d, ks[i]))]]

\* A filter with > in place of >=.
FilteredMoviesStrict(stats, m) == LET Enough(r) == r.rating_count > m IN SelectSeq(stats, Enough)

\* line 106.
FilteredMovies(stats, m) == LET Enough(r) == r.rating_count >= m IN SelectSeq(stats, Enough)

\* line 109: descending by avg_rating, NaN averages last, then the first n.
HigherAvg(a, b) ==
  \/ ~IsNaNMean(a.avg_rating) /\ IsNaNMean(b.avg_rating)
  \/ ~IsNaNMean(a.avg_rating) /\ ~IsNaNMean(b.avg_rating) /\ MeanLess(b.avg_rating, a.avg_rating)
\* A sort with ascending left at its default.
SortByAvgAscending(s) == StableSort(s, [a \in Range(s), b \in Range(s) |-> HigherAvg(b, a)])

SortByAvg(s) == StableSort(s, [a \in Range(s), b \in Range(s) |-> HigherAvg(a, b)])
TopMovies(filtered, n) == head(SortByAvg(filtered), n)

\* ------------------------------------------------------------------ state
VARIABLES
  df,                \* the table load_data returned
  genre_counts,      \* result of the last plot_genre_counts call
  five_star_counts,  \* genre_counts of the last plot_5star_treemap call
  mean_ratings,      \* result of the last plot_mean_rating_by_year call
  movie_stats,       \* top_movies_table's tables, as its last call left them
  filtered_movies,
  top_movies,
  min_ratings,       \* top_movies_table's arguments
  top_n,
  called,            \* the transforms that have returned
  pc,                \* main's position
  top_50_movies,     \* main's two tables
  top_150_movies

vars == <<df, genre_counts, five_star_counts, mean_ratings, movie_stats, filtered_movies,
          top_movies, min_ratings, top_n, called, pc, top_50_movies, top_150_movies>>

mainVars == <<pc, top_50_movies, top_150_movies>>
topVars == <<movie_stats, filtered_movies, top_movies, min_ratings, top_n>>

\* The state once load_data has returned a table whose rows come from rows;
\* ms and ns are the arguments top_movies_table starts with.
InitOver(rows, ms, ns) ==
  /\ df \in TablesOver(rows)
  /\ genre_counts = <<>>
  /\ five_star_counts = <<>>
  /\ mean_ratings = <<>>
  /\ movie_stats = <<>>
  /\ filtered_movies = <<>>
  /\ top_movies = <<>>
  /\ min_ratings \in ms
  /\ top_n \in ns
  /\ called = {}
  /\ pc = "q1"
  /\ top_50_movies = <<>>
  /\ top_150_movies = <<>>

\* ------------------------------------------------------------ operations
\* A filter applied in place.
TableFiltered(d) == TopRatings(d)

\* What a transform does to the table it is handed: nothing.
TableAfter(d) == d

plot_genre_counts ==
  /\ genre_counts' = GenreCounts(df)
  /\ called' = called \cup {"plot_genre_counts"}
  /\ df' = TableAfter(df)
  /\ UNCHANGED <<five_star_counts, mean_ratings, topVars>>

plot_5star_treemap ==
  /\ five_star_counts' = FiveStarCounts(df)
  /\ called' = called \cup {"plot_5star_treemap"}
  /\ df' = TableAfter(df)
  /\ UNCHANGED <<genre_counts, mean_ratings, topVars>>

plot_mean_rating_by_year ==
  /\ mean_ratings' = MeanRatings(df)
  /\ called' = called \cup {"plot_mean_rating_by_year"}
  /\ df' = TableAfter(df)
  /\ UNCHANGED <<genre_counts, five_star_counts, topVars>>

top_movies_table(m, n) ==
  /\ movie_stats' = MovieStats(df)
  /\ filtered_movies' = FilteredMovies(movie_stats', m)
  /\ top_movies' = TopMovies(filtered_movies', n)
  /\ min_ratings' = m
  /\ top_n' = n
  /\ called' = called \cup {"top_movies_table"}
  /\ df' = TableAfter(df)
  /\ UNCHANGED <<genre_counts, five_star_counts, mean_ratings>>

\* main, lines 126-151, one step per question.
MainQ1 == pc = "q1" /\ plot_genre_counts /\ pc' = "q2" /\ UNCHANGED <<top_50_movies, top_150_movies>>
MainQ2 == pc = "q2" /\ plot_5star_treemap /\ pc' = "q3" /\ UNCHANGED <<top_50_movies, top_150_movies>>
MainQ3 == pc = "q3" /\ plot_mean_rating_by_year /\ pc' = "q4" /\ UNCHANGED <<top_50_movies, top_150_movies>>
MainQ4 ==
  /\ pc = "q4"
  /\ top_movies_table(Min50, Top5)
  /\ top_50_movies' = top_movies'
  /\ pc' = "q5"
  /\ UNCHANGED top_150_movies
MainQ5 ==
  /\ pc = "q5"
  /\ top_movies_table(Min150, Top5)
  /\ top_150_movies' = top_movies'
  /\ pc' = "done"
  /\ UNCHANGED top_50_movies

\* The transforms called one at a time, as the presentation layer may.
CallGenreCounts == plot_genre_counts /\ UNCHANGED mainVars
CallFiveStar == plot_5star_treemap /\ UNCHANGED mainVars
CallMeanByYear == plot_mean_rating_by_year /\ UNCHANGED mainVars
CallTopMovies == \E m \in 1..MaxMinRatings, n \in 1..MaxTopN : top_movies_table(m, n) /\ UNCHANGED mainVars
CallTopMoviesWithArgs == top_movies_table(min_ratings, top_n) /\ UNCHANGED mainVars
CallTop50 == top_movies_table(Min50, Top5) /\ UNCHANGED mainVars
CallTop150 == top_movies_table(Min150, Top5) /\ UNCHANGED mainVars

\* --------------------------------------------------------- specifications
\* Any order of calls on one loaded table.
Init == InitOver(MainRows, {Min50}, {Top5})
Next == CallGenreCounts \/ CallFiveStar \/ CallMeanByYear \/ CallTopMovies \/ CallTop50 \/ CallTop150
Spec == Init /\ [][Next]_vars

\* main's run.
NextMain == MainQ1 \/ MainQ2 \/ MainQ3 \/ MainQ4 \/ MainQ5
SpecMain == Init /\ [][NextMain]_vars

\* The genre transforms over every genres/rating column.
InitGenre == InitOver(GenreRows, {Min50}, {Top5})
NextGenre == CallGenreCounts \/ CallFiveStar
SpecGenre == InitGenre /\ [][NextGenre]_vars

\* The yearly mean over every year/rating column.
InitYear == InitOver(YearRows, {Min50}, {Top5})
NextYear == CallMeanByYear
SpecYear == InitYear /\ [][NextYear]_vars

\* top_movies_table over title/rating columns, for every argument pair.
InitTop == InitOver(TitleRows, 1..MaxMinRatings, 1..MaxTopN)
NextTop == CallTopMoviesWithArgs
SpecTop == InitTop /\ [][NextTop]_vars

\* ----------------------------------------------------------------- claims
Returned(f) == f \in called
GenreRowsOf(g) == {i \in DOMAIN df : df[i].genres = g}
FiveStarRowsOf(g) == {i \in DOMAIN df : df[i].genres = g /\ df[i].rating = 5}
CountOf(out, g) == {i \in DOMAIN out : out[i].genres = g}
RECURSIVE SumCounts(_)
SumCounts(out) == IF out = <<>> THEN 0 ELSE Head(out).count + SumCounts(Tail(out))

\* C1: once plot_genre_counts has returned, its table has exactly one row
\* for each non-missing genres value of the loaded table and none for any
\* other value, the count of a row is the number of table rows with that
\* genres value, and the counts add up to the number of rows whose genres
\* is not missing.
C1_GenreCountsComplete ==
  Returned("plot_genre_counts") =>
    /\ \A g \in Genres : Cardinality(CountOf(genre_counts, g)) = (IF GenreRowsOf(g) = {} THEN 0 ELSE 1)
    /\ \A i \in DOMAIN genre_counts :
         /\ genre_counts[i].genres \in Genres
         /\ genre_counts[i].count = Cardinality(GenreRowsOf(genre_counts[i].genres))
    /\ SumCounts(genre_counts) = Cardinality({i \in DOMAIN df : df[i].genres # NoText})

C1_Witness ==
  /\ Returned("plot_genre_counts")
  /\ Len(genre_counts) = 2
  /\ GenreRowsOf(NoText) # {}
  /\ \E i \in DOMAIN genre_counts : genre_counts[i].count >= 2

\* C2: once both genre transforms have returned, every genre of the
\* five-star table is a genre of the genre table, its five-star count is the
\* number of rows with that genre and rating 5, which is at least 1 and at
\* most its count in the genre table, and a genre without a rating-5 row has
\* no five-star row.
C2_FiveStarSubset ==
  (Returned("plot_genre_counts") /\ Returned("plot_5star_treemap")) =>
    /\ \A i \in DOMAIN five_star_counts :
         LET g == five_star_counts[i].genres
             c == five_star_counts[i].count
         IN /\ \E j \in DOMAIN genre_counts : genre_counts[j].genres = g /\ c <= genre_counts[j].count
            /\ c = Cardinality(FiveStarRowsOf(g))
            /\ c >= 1
    /\ \A g \in Genres : FiveStarRowsOf(g) = {} => CountOf(five_star_counts, g) = {}

C2_Witness ==
  /\ Returned("plot_genre_counts")
  /\ Returned("plot_5star_treemap")
  /\ Len(genre_counts) = 2
  /\ Len(five_star_counts) = 1
  /\ \E j \in DOMAIN genre_counts :
       /\ genre_counts[j].genres = five_star_counts[1].genres
       /\ five_star_counts[1].count < genre_counts[j].count

\* C3: once plot_mean_rating_by_year has returned, its table has one row per
\* year of the loaded table, in strictly ascending year order, and no row
\* for a year that no table row carries.
C3_YearsAscending ==
  Returned("plot_mean_rating_by_year") =>
    /\ \A i, j \in DOMAIN mean_ratings : i < j => mean_ratings[i].year < mean_ratings[j].year
    /\ {mean_ratings[i].year : i \in DOMAIN mean_ratings} = {df[i].year : i \in DOMAIN df} \ {NaN}

C3_Witness ==
  /\ Returned("plot_mean_rating_by_year")
  /\ Len(mean_ratings) = 2
  /\ Len(df) >= 2
  /\ df[1].year = 1996
  /\ df[2].year = 1995

YearRowsOf(y) == {i \in DOMAIN df : df[i].year = y}
RatedRowsOf(y) == {i \in YearRowsOf(y) : df[i].rating # NaN}
RECURSIVE SumRatings(_)
SumRatings(rows) ==
  IF rows = {} THEN 0
  ELSE LET i == CHOOSE k \in rows : TRUE IN df[i].rating + SumRatings(rows \ {i})

\* C4 as the specification states it: the mean of every year of the output
\* is the sum of the ratings of the rows of that year over the number of
\* those rows, and lies between the least and the greatest of them.
C4_MeanOverAllRows ==
  Returned("plot_mean_rating_by_year") =>
    \A k \in DOMAIN mean_ratings :
      LET y == mean_ratings[k].year
          m == mean_ratings[k].rating
      IN /\ ~IsNaNMean(m)
         /\ m.num * Cardinality(YearRowsOf(y)) = m.den * SumRatings(RatedRowsOf(y))
         /\ \E i \in RatedRowsOf(y) : df[i].rating * m.den <= m.num
         /\ \E i \in RatedRowsOf(y) : df[i].rating * m.den >= m.num

\* C4, amended: the mean of a year of the output is taken over the rows of
\* that year whose rating is not missing: it is their sum over their number
\* and lies between the least and the greatest of them; a year whose
\* ratings are all missing is in the output with a NaN mean.
C4_MeanOverRatedRows ==
  Returned("plot_mean_rating_by_year") =>
    \A k \in DOMAIN mean_ratings :
      LET y == mean_ratings[k].year
          m == mean_ratings[k].rating
      IN IF RatedRowsOf(y) = {} THEN IsNaNMean(m)
         ELSE /\ ~IsNaNMean(m)
              /\ m.num * Cardinality(RatedRowsOf(y)) = m.den * SumRatings(RatedRowsOf(y))
              /\ \E i \in RatedRowsOf(y) : df[i].rating * m.den <= m.num
              /\ \E i \in RatedRowsOf(y) : df[i].rating * m.den >= m.num

C4_Witness ==
  /\ Returned("plot_mean_rating_by_year")
  /\ Len(mean_ratings) = 2
  /\ mean_ratings[1].rating = [num |-> 9, den |-> 2]
  /\ IsNaNMean(mean_ratings[2].rating)
  /\ Cardinality(YearRowsOf(1995)) = 3

TitleRowsOf(t) == {i \in DOMAIN df : df[i].title = t}
RatedTitleRowsOf(t) == {i \in TitleRowsOf(t) : df[i].rating # NaN}
Qualifying == {t \in Titles : Cardinality(RatedTitleRowsOf(t)) >= min_ratings}
Smaller(a, b) == IF a < b THEN a ELSE b
\* The exact average of the rated rows of a title is above that of another.
AvgAbove(t, u) ==
  SumRatings(RatedTitleRowsOf(t)) * Cardinality(RatedTitleRowsOf(u))
    > SumRatings(RatedTitleRowsOf(u)) * Cardinality(RatedTitleRowsOf(t))

\* C5: once top_movies_table(df, m, n) has returned, for positive m and n,
\* every row of its result has rating_count >= m, the result has at most n
\* rows, and avg_rating does not increase from a row to the next.
C5_TopMoviesThreshold ==
  Returned("top_movies_table") =>
    /\ \A i \in DOMAIN top_movies : top_movies[i].rating_count >= min_ratings
    /\ Len(top_movies) <= top_n
    /\ \A i, j \in DOMAIN top_movies :
         i < j => ~MeanLess(top_movies[i].avg_rating, top_movies[j].avg_rating)

C5_Witness ==
  /\ Returned("top_movies_table")
  /\ min_ratings = 2
  /\ top_n = 2
  /\ Len(top_movies) = 2
  /\ MeanLess(top_movies[2].avg_rating, top_movies[1].avg_rating)
  /\ Len(df) >= 4

\* C9: once top_movies_table(df, m, n) has returned, for positive m and n,
\* its result has exactly min(n, Q) rows, Q being the number of titles whose
\* rating_count is at least m, no title is in two rows, every returned title
\* qualifies, and no qualifying title left out has an average above that of
\* a returned one.
C9_TopMoviesExactlyTopN ==
  Returned("top_movies_table") =>
    LET returned == {top_movies[i].title : i \in DOMAIN top_movies}
    IN /\ Len(top_movies) = Smaller(top_n, Cardinality(Qualifying))
       /\ \A i, j \in DOMAIN top_movies : top_movies[i].title = top_movies[j].title => i = j
       /\ returned \subseteq Qualifying
       /\ \A t \in Qualifying \ returned : \A u \in returned : ~AvgAbove(t, u)

C9_Witness ==
  /\ Returned("top_movies_table")
  /\ top_n = 1
  /\ Cardinality(Qualifying) = 3
  /\ Len(top_movies) = 1
  /\ top_movies[1].title = "Up"
  /\ \E t \in Qualifying : AvgAbove("Up", t)

\* Nothing is raised, and the result is empty, when min_ratings exceeds the
\* number of rows of a table that has rows.
C9_WitnessBeyondTable ==
  /\ Returned("top_movies_table")
  /\ Len(df) > 0
  /\ min_ratings > Len(df)
  /\ top_movies = <<>>

\* C10 as the specification states it: rating_count of a title group is the
\* number of table rows with that title.
C10_CountIsRowCount ==
  Returned("top_movies_table") =>
    \A k \in DOMAIN movie_stats :
      movie_stats[k].rating_count = Cardinality(TitleRowsOf(movie_stats[k].title))

\* C10, amended: top_movies_table forms one group per title of the table;
\* rating_count of a group is the number of its rows whose rating is not
\* missing and avg_rating is the mean of rating over those same rows (NaN
\* when there is none); the min_ratings filter keeps exactly the groups
\* whose rating_count is at least min_ratings.
C10_CountIsRatedRowCount ==
  Returned("top_movies_table") =>
    /\ {movie_stats[k].title : k \in DOMAIN movie_stats} = {t \in Titles : TitleRowsOf(t) # {}}
    /\ \A k \in DOMAIN movie_stats :
         LET rated == RatedTitleRowsOf(movie_stats[k].title)
             a == movie_stats[k].avg_rating
         IN /\ movie_stats[k].rating_count = Cardinality(rated)
            /\ IF rated = {} THEN IsNaNMean(a)
               ELSE ~IsNaNMean(a) /\ a.num * Cardinality(rated) = a.den * SumRatings(rated)
    /\ \A k \in DOMAIN movie_stats :
         (\E i \in DOMAIN filtered_movies : filtered_movies[i] = movie_stats[k])
           <=> movie_stats[k].rating_count >= min_ratings
    /\ \A i \in DOMAIN filtered_movies : \E k \in DOMAIN movie_stats : filtered_movies[i] = movie_stats[k]

C10_Witness ==
  /\ Returned("top_movies_table")
  /\ min_ratings = 2
  /\ Cardinality(TitleRowsOf("Heat")) = 3
  /\ Cardinality(RatedTitleRowsOf("Heat")) = 1
  /\ Len(movie_stats) = 2
  /\ movie_stats[1].rating_count = 1
  /\ filtered_movies = <<>>

\* C6: on a table without rows every transform that has returned, and
\* top_movies_table for any positive arguments, has returned an empty
\* table; and plot_5star_treemap has returned an empty table on a table
\* that has rows but none with rating 5.
C6_EmptyResults ==
  /\ df = <<>> =>
       /\ Returned("plot_genre_counts") => genre_counts = <<>>
       /\ Returned("plot_5star_treemap") => five_star_counts = <<>>
       /\ Returned("plot_mean_rating_by_year") => mean_ratings = <<>>
       /\ Returned("top_movies_table") => top_movies = <<>>
  /\ (Returned("plot_5star_treemap") /\ \A i \in DOMAIN df : df[i].rating # 5) =>
       five_star_counts = <<>>

C6_Witness ==
  /\ df = <<>>
  /\ called = {"plot_genre_counts", "plot_5star_treemap", "plot_mean_rating_by_year", "top_movies_table"}
  /\ min_ratings = 1
  /\ top_n = 1
  /\ top_movies = <<>>

\* A table with rows, none of them five-star: the genre table has rows, the
\* five-star table has none.
C6_WitnessNoFiveStar ==
  /\ Returned("plot_genre_counts")
  /\ Returned("plot_5star_treemap")
  /\ genre_counts # <<>>
  /\ five_star_counts = <<>>

\* C8: no call of a transform, in any order and with any arguments, changes
\* the loaded table.
C8_TableNotMutated == [][df' = df]_vars

C8_Witness ==
  /\ called = {"plot_genre_counts", "plot_5star_treemap", "plot_mean_rating_by_year", "top_movies_table"}
  /\ min_ratings = Min150
  /\ Len(df) = 4
  /\ Len(TopRatings(df)) = 1

====
